---- MODULE Spec2Model ----
(***************************************************************************)
(* The miniC optimizer (src/part3): the pass driver of driver.cpp and the  *)
(* four passes of optimizer.cpp, over an explicit model of the LLVM IR     *)
(* graph (blocks, instructions, operands and use-lists).                   *)
(***************************************************************************)
EXTENDS Integers, Sequences, FiniteSets

\* ------------------------------------------------------------------ bounds
\* Longest body (instructions before the terminator) of a generated block.
MaxBody == 2
\* The round counter is counted up to this value and then no further.
MaxIteration == 4
\* Bit width of the integer type of the generated programs.
IntWidth == 8
\* Bit width of the narrow integer type used by some corpus programs.
NarrowWidth == 4

\* ------------------------------------------------------------------ values
\* An LLVMValueRef: a constant integer of width w, an instruction result, a
\* function argument, a basic block (branch target) or a function (callee).
ConstV(w, n) == [k |-> "const", w |-> w, v |-> n]
InstV(id) == [k |-> "inst", w |-> 0, v |-> id]
ArgV(n) == [k |-> "arg", w |-> 0, v |-> n]
BlockV(b) == [k |-> "block", w |-> 0, v |-> b]
FuncV(f) == [k |-> "func", w |-> 0, v |-> f]

LLVMIsConstant(val) == val.k \in {"const", "func"}

Range(s) == {s[i] : i \in DOMAIN s}

\* F applied to the value of a, which is computed once however often F uses
\* it (an operator's argument is otherwise computed at each of its uses).
Bind(a, F(_)) == CHOOSE r \in {F(x) : x \in {a}} : TRUE

RECURSIVE Reverse(_)
Reverse(s) == IF s = <<>> THEN <<>> ELSE Append(Reverse(Tail(s)), Head(s))

RECURSIVE Flatten(_)
Flatten(ss) == IF ss = <<>> THEN <<>> ELSE Head(ss) \o Flatten(Tail(ss))

RECURSIVE Pow2(_)
Pow2(n) == IF n = 0 THEN 1 ELSE 2 * Pow2(n - 1)

\* The two's-complement value of x in w bits, in -2^(w-1) .. 2^(w-1)-1.
Wrap(x, w) ==
    LET r == x % Pow2(w)
    IN  IF r >= Pow2(w - 1) THEN r - Pow2(w) ELSE r

\* ---------------------------------------------------------------- IR graph
\* The module before it is parsed and after it is disposed.
NoModule == [funcs |-> <<>>, blocks |-> <<>>, insts |-> <<>>, uses |-> <<>>]

\* The basic blocks of the module in function order, then block order.
ModuleBlocks(m) == Flatten(m.funcs)

\* Every instruction of the module in iteration order.
ModuleOrder(m) ==
    LET bs == ModuleBlocks(m)
    IN  Flatten([j \in 1..Len(bs) |-> m.blocks[bs[j]]])

LLVMGetInstructionOpcode(m, id) == m.insts[id].op
LLVMGetNumOperands(m, id) == Len(m.insts[id].args)
LLVMGetOperand(m, id, i) == m.insts[id].args[i + 1]

\* The use-list of a value: edges (user, operand index), newest first.
UseList(u, val) == IF val \in DOMAIN u THEN u[val] ELSE <<>>

SetUses(u, val, list) ==
    IF list = <<>>
    THEN [x \in DOMAIN u \ {val} |-> u[x]]
    ELSE [x \in DOMAIN u \cup {val} |-> IF x = val THEN list ELSE u[x]]

\* Use::set links a new use at the head of the value's list.
AddUse(u, val, e) == SetUses(u, val, <<e>> \o UseList(u, val))

RemoveUser(list, id) == SelectSeq(list, LAMBDA e : e.user # id)

LLVMGetFirstUse(m, id) == UseList(m.uses, InstV(id))

\* Value::replaceAllUsesWith: while old has a use, take its first use and set
\* it to new, which unlinks it from old and links it at the head of new.
LLVMReplaceAllUsesWith(m, old, new) ==
    LET moved == UseList(m.uses, old)
        edges == Range(moved)
    IN  IF moved = <<>> THEN m
        ELSE [m EXCEPT
                !.insts = [id \in DOMAIN m.insts |->
                    [m.insts[id] EXCEPT !.args =
                        [i \in 1..Len(m.insts[id].args) |->
                            IF [user |-> id, idx |-> i] \in edges
                            THEN new ELSE m.insts[id].args[i]]]],
                !.uses = SetUses(SetUses(m.uses, new,
                                         Reverse(moved) \o UseList(m.uses, new)),
                                 old, <<>>)]

RECURSIVE DropOperandUses(_, _, _)
DropOperandUses(u, args, id) ==
    IF args = <<>> THEN u
    ELSE Bind(SetUses(u, Head(args), RemoveUser(UseList(u, Head(args)), id)),
              LAMBDA dropped : DropOperandUses(dropped, Tail(args), id))

\* Instruction::eraseFromParent: unlink from the block, drop the operand
\* uses, destroy the value (and with it its use-list).
LLVMInstructionEraseFromParent(m, id) ==
    LET u1 == DropOperandUses(m.uses, m.insts[id].args, id)
    IN  [m EXCEPT
            !.blocks = [b \in DOMAIN m.blocks |->
                            SelectSeq(m.blocks[b], LAMBDA x : x # id)],
            !.insts = [x \in DOMAIN m.insts \ {id} |-> m.insts[x]],
            !.uses = SetUses(u1, InstV(id), <<>>)]

\* ------------------------------------------------------------ the IR codec
\* The textual module: per function its blocks, per block its instructions.
RECURSIVE ParseOperands(_, _, _, _)
ParseOperands(u, id, args, i) ==
    IF i > Len(args) THEN u
    ELSE Bind(AddUse(u, args[i], [user |-> id, idx |-> i]),
              LAMBDA linked : ParseOperands(linked, id, args, i + 1))

RECURSIVE ParseInsts(_, _)
ParseInsts(u, code) ==
    IF code = <<>> THEN u
    ELSE Bind(ParseOperands(u, Head(code).id, Head(code).args, 1),
              LAMBDA linked : ParseInsts(linked, Tail(code)))

\* LLVMParseIRInContext: builds the graph, linking one use per operand.
LLVMParseIRInContext(text) ==
    LET bs == Flatten(text.funcs)
        all == Flatten([j \in 1..Len(bs) |-> text.code[bs[j]]])
    IN  [funcs |-> text.funcs,
         blocks |-> [b \in DOMAIN text.code |->
                        [j \in 1..Len(text.code[b]) |-> text.code[b][j].id]],
         insts |-> [id \in {all[j].id : j \in 1..Len(all)} |->
                        LET r == CHOOSE x \in Range(all) : x.id = id
                        IN  [op |-> r.op, ty |-> r.ty, args |-> r.args]],
         uses |-> ParseInsts(<<>>, all)]

\* LLVMPrintModuleToString: the instructions of every block, in order;
\* use-lists are not part of the text.
LLVMPrintModuleToString(m) ==
    [funcs |-> m.funcs,
     code |-> [b \in DOMAIN m.blocks |->
                  [j \in 1..Len(m.blocks[b]) |->
                      [id |-> m.blocks[b][j],
                       op |-> m.insts[m.blocks[b][j]].op,
                       ty |-> m.insts[m.blocks[b][j]].ty,
                       args |-> m.insts[m.blocks[b][j]].args]]]]

\* ------------------------------------------------------------------ opcodes
TerminatorOpcodes == {"ret", "br", "switch", "indirectbr", "invoke", "unreachable"}

LLVMIsATerminatorInst(m, id) == LLVMGetInstructionOpcode(m, id) \in TerminatorOpcodes

LLVMIsAStoreInst(m, id) == LLVMGetInstructionOpcode(m, id) = "store"

\* ------------------------------------------------- dead code elimination
\* Mutant: the store case is missing from the switch.
is_safe_to_delete_no_store(opcode) ==
    opcode \notin {"ret", "br", "switch", "indirectbr", "invoke", "unreachable",
                   "call", "alloca", "fence", "cmpxchg", "atomicrmw"}

\* Mutant: the arithmetic opcodes are refused as well.
is_safe_to_delete_keeps_arith(opcode) ==
    opcode \notin {"ret", "br", "switch", "indirectbr", "invoke", "unreachable",
                   "store", "call", "alloca", "fence", "cmpxchg", "atomicrmw",
                   "add", "sub", "mul"}

\* Mutant: the return case is missing from the switch.
is_safe_to_delete_no_ret(opcode) ==
    opcode \notin {"br", "switch", "indirectbr", "invoke", "unreachable",
                   "store", "call", "alloca", "fence", "cmpxchg", "atomicrmw"}

is_safe_to_delete(opcode) ==
    CASE opcode \in {"ret", "br", "switch", "indirectbr", "invoke", "unreachable"} -> FALSE
      [] opcode \in {"store", "call", "alloca", "fence", "cmpxchg", "atomicrmw"} -> FALSE
      [] OTHER -> TRUE

\* Mutant: the use-list is not looked at.
IsDead_no_use_check(m, inst) ==
    is_safe_to_delete(LLVMGetInstructionOpcode(m, inst))

\* The test of the sweep: no use, and safe to delete.
IsDead(m, inst) ==
    /\ LLVMGetFirstUse(m, inst) = <<>>
    /\ is_safe_to_delete(LLVMGetInstructionOpcode(m, inst))

\* One forward sweep; the successor is taken before the erase, so the sweep
\* visits the instructions that were in the module when it started.
RECURSIVE dce_sweep(_, _, _)
dce_sweep(m, todo, changed) ==
    IF todo = <<>> THEN [m |-> m, changed |-> changed]
    ELSE IF IsDead(m, Head(todo))
         THEN Bind(LLVMInstructionEraseFromParent(m, Head(todo)),
                   LAMBDA erased : dce_sweep(erased, Tail(todo), TRUE))
         ELSE dce_sweep(m, Tail(todo), changed)

\* Mutant: the pass erases what it erases and reports no change.
dead_code_elimination_silent(m) ==
    [m |-> dce_sweep(m, ModuleOrder(m), FALSE).m, changed |-> FALSE]

dead_code_elimination(m) == dce_sweep(m, ModuleOrder(m), FALSE)

\* -------------------------------------------------------- constant folding
\* Mutant: the result is not reduced to the width of the type.
LLVMConstArith_unbounded(opcode, op1, op2) ==
    CASE opcode = "add" -> ConstV(op1.w, op1.v + op2.v)
      [] opcode = "sub" -> ConstV(op1.w, op1.v - op2.v)
      [] opcode = "mul" -> ConstV(op1.w, op1.v * op2.v)

\* LLVMConstAdd / LLVMConstSub / LLVMConstMul on two constant integers: the
\* result has the operands' type and wraps to its width.
LLVMConstArith(opcode, op1, op2) ==
    CASE opcode = "add" -> ConstV(op1.w, Wrap(op1.v + op2.v, op1.w))
      [] opcode = "sub" -> ConstV(op1.w, Wrap(op1.v - op2.v, op1.w))
      [] opcode = "mul" -> ConstV(op1.w, Wrap(op1.v * op2.v, op1.w))

\* Whether the pass folds the instruction: an add, sub or mul whose two
\* operands are both constants.
IsFoldable(m, inst) ==
    /\ LLVMGetInstructionOpcode(m, inst) \in {"add", "sub", "mul"}
    /\ LLVMIsConstant(LLVMGetOperand(m, inst, 0))
    /\ LLVMIsConstant(LLVMGetOperand(m, inst, 1))

\* Mutant: the folded instruction is erased on the spot.
fold_inst_and_erase(m, inst) ==
    LLVMInstructionEraseFromParent(
        LLVMReplaceAllUsesWith(m, InstV(inst),
            LLVMConstArith(LLVMGetInstructionOpcode(m, inst),
                           LLVMGetOperand(m, inst, 0), LLVMGetOperand(m, inst, 1))),
        inst)

\* The body of the loop for one instruction.
fold_inst(m, inst) ==
    LLVMReplaceAllUsesWith(m, InstV(inst),
        LLVMConstArith(LLVMGetInstructionOpcode(m, inst),
                       LLVMGetOperand(m, inst, 0), LLVMGetOperand(m, inst, 1)))

RECURSIVE cf_sweep(_, _, _)
cf_sweep(m, todo, changed) ==
    IF todo = <<>> THEN [m |-> m, changed |-> changed]
    ELSE IF IsFoldable(m, Head(todo))
         THEN Bind(fold_inst(m, Head(todo)),
                   LAMBDA folded : cf_sweep(folded, Tail(todo), TRUE))
         ELSE cf_sweep(m, Tail(todo), changed)

\* Mutant: the pass reports whether the graph is another one.
constant_folding_by_graph(m) ==
    [m |-> cf_sweep(m, ModuleOrder(m), FALSE).m,
     changed |-> (cf_sweep(m, ModuleOrder(m), FALSE).m # m)]

constant_folding(m) == cf_sweep(m, ModuleOrder(m), FALSE)

\* ------------------------------------------ common subexpression elimination
instructions_equal(m, inst1, inst2) ==
    /\ LLVMGetInstructionOpcode(m, inst1) = LLVMGetInstructionOpcode(m, inst2)
    /\ LLVMGetNumOperands(m, inst1) = LLVMGetNumOperands(m, inst2)
    /\ \A i \in 0..(LLVMGetNumOperands(m, inst1) - 1) :
           LLVMGetOperand(m, inst1, i) = LLVMGetOperand(m, inst2, i)

\* Mutant: loads are skipped like the other memory instructions.
cse_skips_loads(m, inst_a) ==
    \/ LLVMGetInstructionOpcode(m, inst_a) \in {"call", "store", "alloca", "load"}
    \/ LLVMIsATerminatorInst(m, inst_a)

\* Mutant: only terminators are skipped.
cse_skips_terminators(m, inst_a) == LLVMIsATerminatorInst(m, inst_a)

\* Instructions the outer loop never takes as A.
cse_skips(m, inst_a) ==
    \/ LLVMGetInstructionOpcode(m, inst_a) \in {"call", "store", "alloca"}
    \/ LLVMIsATerminatorInst(m, inst_a)

\* Mutant: the stores between the two loads are not looked at.
load_safe_unchecked(m, s, ia, ib) == TRUE

\* The load check: no store to the loaded address strictly between positions
\* ia and ib of block sequence s (TRUE when A is not a load).
load_safe(m, s, ia, ib) ==
    LLVMGetInstructionOpcode(m, s[ia]) = "load" =>
        \A j \in (ia + 1)..(ib - 1) :
            ~(/\ LLVMGetInstructionOpcode(m, s[j]) = "store"
              /\ LLVMGetOperand(m, s[j], 1) = LLVMGetOperand(m, s[ia], 0))

\* Whether the inner loop merges B (position ib) into A (position ia).
cse_merges(m, s, ia, ib) ==
    /\ instructions_equal(m, s[ia], s[ib])
    /\ load_safe(m, s, ia, ib)

\* The inner loop: every B after A.
RECURSIVE cse_inner(_, _, _, _, _)
cse_inner(m, s, ia, ib, changed) ==
    IF ib > Len(s) THEN [m |-> m, changed |-> changed]
    ELSE IF cse_merges(m, s, ia, ib)
         THEN Bind(LLVMReplaceAllUsesWith(m, InstV(s[ib]), InstV(s[ia])),
                   LAMBDA merged : cse_inner(merged, s, ia, ib + 1, TRUE))
         ELSE cse_inner(m, s, ia, ib + 1, changed)

\* The outer loop: every A of the block.
RECURSIVE cse_outer(_, _, _, _)
cse_outer(m, s, ia, changed) ==
    IF ia > Len(s) THEN [m |-> m, changed |-> changed]
    ELSE IF cse_skips(m, s[ia])
         THEN cse_outer(m, s, ia + 1, changed)
         ELSE Bind(cse_inner(m, s, ia, ia + 1, changed),
                   LAMBDA r : cse_outer(r.m, s, ia + 1, r.changed))

\* Mutant: the instructions of all the blocks are compared as one sequence.
cse_blocks_as_one(m, bs, changed) ==
    cse_outer(m, Flatten([j \in 1..Len(bs) |-> m.blocks[bs[j]]]), 1, changed)

RECURSIVE cse_blocks(_, _, _)
cse_blocks(m, bs, changed) ==
    IF bs = <<>> THEN [m |-> m, changed |-> changed]
    ELSE Bind(cse_outer(m, m.blocks[Head(bs)], 1, changed),
              LAMBDA r : cse_blocks(r.m, Tail(bs), r.changed))

\* Mutant: an instruction whose uses were all moved away is erased.
common_subexpression_elimination_erasing(m) ==
    LET r == cse_blocks(m, ModuleBlocks(m), FALSE)
        merged == {id \in DOMAIN m.insts :
                      /\ LLVMGetFirstUse(m, id) # LLVMGetFirstUse(r.m, id)
                      /\ LLVMGetFirstUse(r.m, id) = <<>>}
    IN  IF merged = {} THEN r
        ELSE [m |-> LLVMInstructionEraseFromParent(r.m, CHOOSE id \in merged : TRUE),
              changed |-> r.changed]

common_subexpression_elimination(m) == cse_blocks(m, ModuleBlocks(m), FALSE)

\* ------------------------------------------- reaching stores (GEN and KILL)
get_store_address(m, inst) == LLVMGetOperand(m, inst, 1)

get_load_address(m, inst) == LLVMGetOperand(m, inst, 0)

stores_to_same_address(m, store1, store2) ==
    get_store_address(m, store1) = get_store_address(m, store2)

is_constant_store(m, inst) ==
    /\ LLVMIsAStoreInst(m, inst)
    /\ LLVMIsConstant(LLVMGetOperand(m, inst, 0))

\* Mutant: a store is added and removes nothing.
RECURSIVE gen_block_keeps_all(_, _, _)
gen_block_keeps_all(m, todo, gen) ==
    IF todo = <<>> THEN gen
    ELSE IF LLVMIsAStoreInst(m, Head(todo))
         THEN gen_block_keeps_all(m, Tail(todo), gen \cup {Head(todo)})
         ELSE gen_block_keeps_all(m, Tail(todo), gen)

\* Step 2 for one block: each store removes the earlier stores to its
\* address from the set and is then added.
RECURSIVE gen_block(_, _, _)
gen_block(m, todo, gen) ==
    IF todo = <<>> THEN gen
    ELSE IF LLVMIsAStoreInst(m, Head(todo))
         THEN gen_block(m, Tail(todo),
                  {p \in gen : ~stores_to_same_address(m, Head(todo), p)}
                      \cup {Head(todo)})
         ELSE gen_block(m, Tail(todo), gen)

\* Step 3: the stores of the function.
collect_stores(m, f) ==
    {id \in Range(Flatten([j \in 1..Len(f) |-> m.blocks[f[j]]])) :
        LLVMIsAStoreInst(m, id)}

\* Step 4 for one block: for each store of the block, every other store of
\* the function to the same address.
kill_block(m, b, stores) ==
    {other \in stores :
        \E inst \in Range(m.blocks[b]) :
            /\ LLVMIsAStoreInst(m, inst)
            /\ other # inst
            /\ stores_to_same_address(m, inst, other)}

\* The tables after the analysis of function f (a sequence of blocks): the
\* tables are cleared first, so nothing of an earlier function is left.
analyse_function(m, f) ==
    [GEN |-> [b \in Range(f) |-> gen_block(m, m.blocks[b], {})],
     KILL |-> [b \in Range(f) |-> kill_block(m, b, collect_stores(m, f))],
     all_stores |-> collect_stores(m, f)]

\* Mutant: the tables are not cleared before a function is analysed.
RECURSIVE cp_functions_accumulating(_, _, _)
cp_functions_accumulating(m, fs, tables) ==
    IF fs = <<>> THEN tables
    ELSE LET a == analyse_function(m, Head(fs))
         IN  cp_functions_accumulating(m, Tail(fs),
                 [GEN |-> [b \in DOMAIN a.GEN \cup DOMAIN tables.GEN |->
                              IF b \in DOMAIN a.GEN THEN a.GEN[b] ELSE tables.GEN[b]],
                  KILL |-> [b \in DOMAIN a.KILL \cup DOMAIN tables.KILL |->
                               IF b \in DOMAIN a.KILL THEN a.KILL[b] ELSE tables.KILL[b]],
                  all_stores |-> a.all_stores \cup tables.all_stores])

\* The pass: every function is analysed in turn; the graph is not touched
\* and the result is always "no change".
RECURSIVE cp_functions(_, _, _)
cp_functions(m, fs, tables) ==
    IF fs = <<>> THEN tables
    ELSE Bind(analyse_function(m, Head(fs)),
              LAMBDA analysed : cp_functions(m, Tail(fs), analysed))

\* Mutant: the pass reports a change when the module has a store.
constant_propagation_reporting(m, tables) ==
    [m |-> m,
     changed |-> (\E id \in DOMAIN m.insts : LLVMIsAStoreInst(m, id)),
     tables |-> cp_functions(m, m.funcs, tables)]

\* Mutant: a load of an address that some store of the module writes a
\* constant to is replaced by that constant, whatever else reaches it.
constant_propagation_any_store(m, tables) ==
    LET stores(l) == {st \in DOMAIN m.insts :
                         /\ is_constant_store(m, st)
                         /\ get_store_address(m, st) = get_load_address(m, l)}
        loads == {l \in DOMAIN m.insts :
                     /\ LLVMGetInstructionOpcode(m, l) = "load"
                     /\ LLVMGetFirstUse(m, l) # <<>>
                     /\ stores(l) # {}}
    IN  IF loads = {}
        THEN [m |-> m, changed |-> FALSE,
              tables |-> cp_functions(m, m.funcs, tables)]
        ELSE LET l == CHOOSE x \in loads : TRUE
                 st == CHOOSE x \in stores(l) : TRUE
             IN  [m |-> LLVMReplaceAllUsesWith(m, InstV(l), LLVMGetOperand(m, st, 0)),
                  changed |-> TRUE,
                  tables |-> cp_functions(m, m.funcs, tables)]

constant_propagation(m, tables) ==
    [m |-> m, changed |-> FALSE, tables |-> cp_functions(m, m.funcs, tables)]

NoTables == [GEN |-> <<>>, KILL |-> <<>>, all_stores |-> {}]

\* ------------------------------------------------------------ input programs
Inst(id, op, ty, args) == [id |-> id, op |-> op, ty |-> ty, args |-> args]

I8(n) == ConstV(IntWidth, n)

\* addr_a and addr_b: two pointer arguments; n: the integer argument.
addr_a == ArgV(1)
addr_b == ArgV(2)
arg_n == ArgV(3)

AddrPool == {addr_a, addr_b}

\* The integer results of the instructions of a body.
IntResults(body) == {InstV(body[j].id) : j \in {i \in 1..Len(body) : body[i].ty > 0}}

\* The instructions that may follow a body in a generated block: arithmetic
\* on constants (with and without wraparound), additions that use earlier
\* results, loads, stores, a call, a fence, an atomic update.
BodyOptions(body) ==
    LET id == Len(body) + 1
        res == IntResults(body)
    IN  {Inst(id, op, IntWidth, <<I8(5), I8(100)>>) : op \in {"add", "sub", "mul"}}
        \cup {Inst(id, "add", IntWidth, <<I8(100), I8(100)>>)}
        \cup {Inst(id, "add", IntWidth, <<x, y>>) : x \in res, y \in {I8(5)} \cup res}
        \cup {Inst(id, "load", IntWidth, <<p>>) : p \in AddrPool}
        \cup {Inst(id, "store", 0, <<x, addr_a>>) : x \in {I8(5)} \cup res}
        \cup {Inst(id, "store", 0, <<I8(5), addr_b>>)}
        \cup {Inst(id, "call", IntWidth, <<x, FuncV(1)>>) :
                  x \in {I8(5)} \cup {InstV(r) : r \in {id - 1} \cap {v.v : v \in res}}}
        \cup {Inst(id, "fence", 0, <<>>),
              Inst(id, "atomicrmw", IntWidth, <<addr_a, I8(5)>>)}

\* A generated block returns nothing or one of its results.
TermOptions(body) ==
    LET id == Len(body) + 1
    IN  {Inst(id, "ret", 0, <<>>)}
        \cup {Inst(id, "ret", 0, <<x>>) : x \in IntResults(body)}

RECURSIVE BodiesOfLen(_)
BodiesOfLen(n) ==
    IF n = 0 THEN {<<>>}
    ELSE UNION {{Append(b, i) : i \in BodyOptions(b)} : b \in BodiesOfLen(n - 1)}

\* Every one-block function whose body has at most MaxBody instructions.
GeneratedPrograms ==
    UNION {{[funcs |-> <<<<1>>>>, code |-> <<Append(b, t)>>] : t \in TermOptions(b)} :
              b \in UNION {BodiesOfLen(n) : n \in 0..MaxBody}}

OneBlock(code) == [funcs |-> <<<<1>>>>, code |-> <<code>>]

\* [ store addr_a, 42; %2 = load addr_a; ret %2 ]
ProgStoreLoad ==
    OneBlock(<<Inst(1, "store", 0, <<I8(42), addr_a>>),
               Inst(2, "load", IntWidth, <<addr_a>>),
               Inst(3, "ret", 0, <<InstV(2)>>)>>)

\* [ %1 = load addr_a; store addr_a, n; %3 = load addr_a; %4 = add %1, %3; ret %4 ]
ProgLoadStoreLoad ==
    OneBlock(<<Inst(1, "load", IntWidth, <<addr_a>>),
               Inst(2, "store", 0, <<arg_n, addr_a>>),
               Inst(3, "load", IntWidth, <<addr_a>>),
               Inst(4, "add", IntWidth, <<InstV(1), InstV(3)>>),
               Inst(5, "ret", 0, <<InstV(4)>>)>>)

\* [ %1 = load addr_a; %2 = mul %1, 5; %3 = load addr_a; %4 = add %2, %3; ret %4 ]
ProgLoadMulLoad ==
    OneBlock(<<Inst(1, "load", IntWidth, <<addr_a>>),
               Inst(2, "mul", IntWidth, <<InstV(1), I8(5)>>),
               Inst(3, "load", IntWidth, <<addr_a>>),
               Inst(4, "add", IntWidth, <<InstV(2), InstV(3)>>),
               Inst(5, "ret", 0, <<InstV(4)>>)>>)

\* Two loads of addr_a, then one add of the first and two adds of the
\* second; every add is used.
ProgCascade ==
    OneBlock(<<Inst(1, "load", IntWidth, <<addr_a>>),
               Inst(2, "load", IntWidth, <<addr_a>>),
               Inst(3, "add", IntWidth, <<InstV(1), I8(5)>>),
               Inst(4, "add", IntWidth, <<InstV(2), I8(5)>>),
               Inst(5, "add", IntWidth, <<InstV(2), I8(5)>>),
               Inst(6, "store", 0, <<InstV(3), addr_b>>),
               Inst(7, "store", 0, <<InstV(4), addr_b>>),
               Inst(8, "ret", 0, <<InstV(5)>>)>>)

\* Two loads of a pointer, a load through the first, a store through the
\* second, and a second load through the first.
ProgPointerCascade ==
    OneBlock(<<Inst(1, "load", 0, <<addr_a>>),
               Inst(2, "load", 0, <<addr_a>>),
               Inst(3, "load", IntWidth, <<InstV(1)>>),
               Inst(4, "store", 0, <<I8(5), InstV(2)>>),
               Inst(5, "load", IntWidth, <<InstV(1)>>),
               Inst(6, "add", IntWidth, <<InstV(3), InstV(5)>>),
               Inst(7, "ret", 0, <<InstV(6)>>)>>)

\* The examples of constant folding: add 10, 20 and sub 5, 8.
ProgFold ==
    OneBlock(<<Inst(1, "add", IntWidth, <<I8(10), I8(20)>>),
               Inst(2, "sub", IntWidth, <<I8(5), I8(8)>>),
               Inst(3, "mul", IntWidth, <<InstV(1), InstV(2)>>),
               Inst(4, "store", 0, <<InstV(3), addr_a>>),
               Inst(5, "ret", 0, <<InstV(2)>>)>>)

\* An addition in the narrow type.
ProgNarrow ==
    OneBlock(<<Inst(1, "add", NarrowWidth, <<ConstV(NarrowWidth, 7), ConstV(NarrowWidth, 7)>>),
               Inst(2, "ret", 0, <<InstV(1)>>)>>)

\* A chain of instructions of which only the last has no use.
ProgDeadChain ==
    OneBlock(<<Inst(1, "load", IntWidth, <<addr_a>>),
               Inst(2, "add", IntWidth, <<InstV(1), I8(5)>>),
               Inst(3, "mul", IntWidth, <<InstV(2), InstV(2)>>),
               Inst(4, "ret", 0, <<>>)>>)

\* A diamond: the entry branches on n < 5 to two blocks that store 1 and 2
\* to addr_a and join in a block that loads addr_a.
ProgDiamond ==
    [funcs |-> <<<<1, 2, 3, 4>>>>,
     code |-> << <<Inst(1, "icmp", 1, <<arg_n, I8(5)>>),
                   Inst(2, "br", 0, <<InstV(1), BlockV(3), BlockV(2)>>)>>,
                 <<Inst(3, "store", 0, <<I8(1), addr_a>>),
                   Inst(4, "br", 0, <<BlockV(4)>>)>>,
                 <<Inst(5, "store", 0, <<I8(2), addr_a>>),
                   Inst(6, "br", 0, <<BlockV(4)>>)>>,
                 <<Inst(7, "load", IntWidth, <<addr_a>>),
                   Inst(8, "ret", 0, <<InstV(7)>>)>> >>]

\* A diamond whose branches store the argument and a constant.
ProgDiamondArg ==
    [funcs |-> <<<<1, 2, 3, 4>>>>,
     code |-> << <<Inst(1, "icmp", 1, <<arg_n, I8(5)>>),
                   Inst(2, "br", 0, <<InstV(1), BlockV(3), BlockV(2)>>)>>,
                 <<Inst(3, "store", 0, <<arg_n, addr_a>>),
                   Inst(4, "br", 0, <<BlockV(4)>>)>>,
                 <<Inst(5, "store", 0, <<I8(2), addr_b>>),
                   Inst(6, "br", 0, <<BlockV(4)>>)>>,
                 <<Inst(7, "load", IntWidth, <<addr_a>>),
                   Inst(8, "load", IntWidth, <<addr_b>>),
                   Inst(9, "add", IntWidth, <<InstV(7), InstV(8)>>),
                   Inst(10, "ret", 0, <<InstV(9)>>)>> >>]

\* Two blocks in a row: the first stores a constant, the second loads it.
ProgStraight ==
    [funcs |-> <<<<1, 2>>>>,
     code |-> << <<Inst(1, "store", 0, <<I8(42), addr_a>>),
                   Inst(2, "load", IntWidth, <<addr_b>>),
                   Inst(3, "br", 0, <<BlockV(2)>>)>>,
                 <<Inst(4, "load", IntWidth, <<addr_a>>),
                   Inst(5, "load", IntWidth, <<addr_b>>),
                   Inst(6, "add", IntWidth, <<InstV(4), InstV(5)>>),
                   Inst(7, "ret", 0, <<InstV(6)>>)>> >>]

\* Two functions, each of one block, with stores to the same address.
ProgTwoFunctions ==
    [funcs |-> <<<<1>>, <<2>>>>,
     code |-> << <<Inst(1, "store", 0, <<I8(1), addr_a>>),
                   Inst(2, "store", 0, <<I8(2), addr_a>>),
                   Inst(3, "add", IntWidth, <<I8(100), I8(100)>>),
                   Inst(4, "ret", 0, <<InstV(3)>>)>>,
                 <<Inst(5, "store", 0, <<I8(5), addr_a>>),
                   Inst(6, "load", IntWidth, <<addr_a>>),
                   Inst(7, "load", IntWidth, <<addr_a>>),
                   Inst(8, "sub", IntWidth, <<InstV(6), InstV(7)>>),
                   Inst(9, "ret", 0, <<InstV(8)>>)>> >>]

\* A local variable: an alloca, a store to it, a load from it; the block
\* after it is unreachable code.
ProgAlloca ==
    [funcs |-> <<<<1, 2>>>>,
     code |-> << <<Inst(1, "alloca", 0, <<I8(1)>>),
                   Inst(2, "alloca", 0, <<I8(1)>>),
                   Inst(3, "store", 0, <<I8(5), InstV(1)>>),
                   Inst(4, "load", IntWidth, <<InstV(1)>>),
                   Inst(5, "ret", 0, <<InstV(4)>>)>>,
                 <<Inst(6, "load", IntWidth, <<InstV(2)>>),
                   Inst(7, "unreachable", 0, <<>>)>> >>]

\* Instructions with side effects whose results nobody uses, and an unused
\* addition.
ProgSideEffects ==
    OneBlock(<<Inst(1, "call", IntWidth, <<I8(5), FuncV(1)>>),
               Inst(2, "store", 0, <<I8(5), addr_a>>),
               Inst(3, "alloca", 0, <<I8(1)>>),
               Inst(4, "fence", 0, <<>>),
               Inst(5, "cmpxchg", IntWidth, <<addr_a, I8(5), I8(100)>>),
               Inst(6, "atomicrmw", IntWidth, <<addr_a, I8(5)>>),
               Inst(7, "add", IntWidth, <<arg_n, I8(5)>>),
               Inst(8, "ret", 0, <<>>)>>)

\* Blocks laid out in another order than control passes through them: the
\* unused addition of the second block uses the load of the third.
ProgLayout ==
    [funcs |-> <<<<1, 2, 3>>>>,
     code |-> << <<Inst(1, "br", 0, <<BlockV(3)>>)>>,
                 <<Inst(2, "add", IntWidth, <<InstV(4), I8(5)>>),
                   Inst(3, "ret", 0, <<>>)>>,
                 <<Inst(4, "load", IntWidth, <<addr_a>>),
                   Inst(5, "br", 0, <<BlockV(2)>>)>> >>]

\* Two equal calls whose results are used, next to two equal loads.
ProgCalls ==
    OneBlock(<<Inst(1, "call", IntWidth, <<I8(5), FuncV(1)>>),
               Inst(2, "call", IntWidth, <<I8(5), FuncV(1)>>),
               Inst(3, "add", IntWidth, <<InstV(1), InstV(2)>>),
               Inst(4, "load", IntWidth, <<addr_a>>),
               Inst(5, "load", IntWidth, <<addr_a>>),
               Inst(6, "add", IntWidth, <<InstV(4), InstV(5)>>),
               Inst(7, "store", 0, <<InstV(3), addr_b>>),
               Inst(8, "ret", 0, <<InstV(6)>>)>>)

\* The same addition in the first block and twice in the second.
ProgTwoBlocks ==
    [funcs |-> <<<<1, 2>>>>,
     code |-> << <<Inst(1, "add", IntWidth, <<arg_n, I8(5)>>),
                   Inst(2, "store", 0, <<InstV(1), addr_a>>),
                   Inst(3, "br", 0, <<BlockV(2)>>)>>,
                 <<Inst(4, "add", IntWidth, <<arg_n, I8(5)>>),
                   Inst(5, "add", IntWidth, <<arg_n, I8(5)>>),
                   Inst(6, "add", IntWidth, <<InstV(4), InstV(5)>>),
                   Inst(7, "ret", 0, <<InstV(6)>>)>> >>]

Corpus ==
    {ProgStoreLoad, ProgLoadStoreLoad, ProgLoadMulLoad, ProgCascade,
     ProgPointerCascade, ProgFold, ProgNarrow, ProgDeadChain, ProgDiamond,
     ProgDiamondArg, ProgStraight, ProgTwoFunctions, ProgAlloca,
     ProgSideEffects, ProgLayout, ProgCalls, ProgTwoBlocks}

Programs == GeneratedPrograms \cup Corpus

\* ------------------------------------------------------------ the driver
VARIABLES
    argc,          \* the argument count of the invocation
    fileOK,        \* whether the input file can be read
    irOK,          \* whether the text of the file parses as IR
    file,          \* the text of the input file
    pc,            \* where main is
    module,        \* the IR graph
    changed,       \* main's changed
    iteration,     \* main's iteration
    dce_changed, cf_changed, cse_changed, cp_changed,
    GEN, KILL, all_stores,   \* the tables of the reaching-store analysis
    out,           \* what was written to standard output
    exitCode,      \* main's return value, -1 while it runs
    run,           \* 1 in the first invocation, 2 in the one on its output
    pre            \* the graph when the latest pass was entered

optvars == <<argc, fileOK, irOK, file, pc, module, changed, iteration,
             dce_changed, cf_changed, cse_changed, cp_changed,
             GEN, KILL, all_stores, out, exitCode, run, pre>>

flags == <<dce_changed, cf_changed, cse_changed, cp_changed>>
tables == <<GEN, KILL, all_stores>>
inputs == <<argc, fileOK, irOK, file>>

\* The declaration checker (check_semantics) is another program; these are
\* its variables.
VARIABLES
    root,          \* the AST given to check
    scopes,        \* the stack of scopes, innermost last
    has_error,     \* the error flag
    pending,       \* the visits still to make, next first (the call stack)
    errors,        \* the messages written to standard error
    result,        \* what check returned, -1 before it returns
    at             \* where check is

semvars == <<root, scopes, has_error, pending, errors, result, at>>

vars == <<optvars, semvars>>

NullNode == [type |-> "null", stype |-> "", name |-> "", kids |-> <<>>]

\* check_semantics is not running.
SemIdle ==
    /\ root = NullNode
    /\ scopes = <<>>
    /\ has_error = FALSE
    /\ pending = <<>>
    /\ errors = <<>>
    /\ result = -1
    /\ at = "idle"

\* The invocations that fail before a module exists.
BadInputs == {<<1, TRUE, TRUE>>, <<3, TRUE, TRUE>>, <<2, FALSE, TRUE>>,
              <<2, TRUE, FALSE>>, <<2, FALSE, FALSE>>}

Init ==
    /\ \/ /\ argc = 2 /\ fileOK = TRUE /\ irOK = TRUE
          /\ file \in Programs
       \/ /\ \E b \in BadInputs : argc = b[1] /\ fileOK = b[2] /\ irOK = b[3]
          /\ file \in Corpus
    /\ pc = "start"
    /\ module = NoModule
    /\ changed = FALSE
    /\ iteration = 0
    /\ dce_changed = FALSE /\ cf_changed = FALSE
    /\ cse_changed = FALSE /\ cp_changed = FALSE
    /\ GEN = <<>> /\ KILL = <<>> /\ all_stores = {}
    /\ out = <<>>
    /\ exitCode = -1
    /\ run = 1
    /\ pre = NoModule
    /\ SemIdle

\* Mutant: the result of the parse is not looked at.
Load_parse_unchecked ==
    /\ pc = "start"
    /\ IF argc # 2 \/ ~fileOK
       THEN /\ pc' = "done"
            /\ exitCode' = 1
            /\ UNCHANGED <<module, changed, iteration>>
       ELSE /\ module' = LLVMParseIRInContext(file)
            /\ changed' = TRUE
            /\ iteration' = 0
            /\ pc' = "loop"
            /\ UNCHANGED exitCode
    /\ UNCHANGED <<inputs, flags, tables, out, run, pre>>
    /\ UNCHANGED semvars

\* main up to the loop: the argument check, the file, the parse.
Load ==
    /\ pc = "start"
    /\ IF argc # 2 \/ ~fileOK \/ ~irOK
       THEN /\ pc' = "done"
            /\ exitCode' = 1
            /\ UNCHANGED <<module, changed, iteration>>
       ELSE /\ module' = LLVMParseIRInContext(file)
            /\ changed' = TRUE
            /\ iteration' = 0
            /\ pc' = "loop"
            /\ UNCHANGED exitCode
    /\ UNCHANGED <<inputs, flags, tables, out, run, pre>>
    /\ UNCHANGED semvars

\* Mutant: the loop body runs once.
LoopTest_one_round ==
    /\ pc = "loop"
    /\ IF changed /\ iteration = 0
       THEN /\ changed' = FALSE
            /\ iteration' = IF iteration < MaxIteration THEN iteration + 1 ELSE iteration
            /\ pc' = "dce"
       ELSE /\ pc' = "print"
            /\ UNCHANGED <<changed, iteration>>
    /\ UNCHANGED <<inputs, module, flags, tables, out, exitCode, run, pre>>
    /\ UNCHANGED semvars

\* The loop condition and the head of the body.
LoopTest ==
    /\ pc = "loop"
    /\ IF changed
       THEN /\ changed' = FALSE
            /\ iteration' = IF iteration < MaxIteration THEN iteration + 1 ELSE iteration
            /\ pc' = "dce"
       ELSE /\ pc' = "print"
            /\ UNCHANGED <<changed, iteration>>
    /\ UNCHANGED <<inputs, module, flags, tables, out, exitCode, run, pre>>
    /\ UNCHANGED semvars

\* Mutant: the rest of the round is skipped once DCE has reported a change.
RunDCE_short_circuit ==
    /\ pc = "dce"
    /\ \E r \in {dead_code_elimination(module)} :
           /\ module' = r.m
           /\ dce_changed' = r.changed
           /\ changed' = (changed \/ r.changed)
           /\ pc' = IF r.changed THEN "loop" ELSE "cf"
    /\ pre' = module
    /\ UNCHANGED <<inputs, iteration, cf_changed, cse_changed, cp_changed,
                   tables, out, exitCode, run>>
    /\ UNCHANGED semvars

RunDCE ==
    /\ pc = "dce"
    /\ \E r \in {dead_code_elimination(module)} :
           /\ module' = r.m
           /\ dce_changed' = r.changed
           /\ changed' = (changed \/ r.changed)
    /\ pre' = module
    /\ pc' = "cf"
    /\ UNCHANGED <<inputs, iteration, cf_changed, cse_changed, cp_changed,
                   tables, out, exitCode, run>>
    /\ UNCHANGED semvars

RunCF ==
    /\ pc = "cf"
    /\ \E r \in {constant_folding(module)} :
           /\ module' = r.m
           /\ cf_changed' = r.changed
           /\ changed' = (changed \/ r.changed)
    /\ pre' = module
    /\ pc' = "cse"
    /\ UNCHANGED <<inputs, iteration, dce_changed, cse_changed, cp_changed,
                   tables, out, exitCode, run>>
    /\ UNCHANGED semvars

RunCSE ==
    /\ pc = "cse"
    /\ \E r \in {common_subexpression_elimination(module)} :
           /\ module' = r.m
           /\ cse_changed' = r.changed
           /\ changed' = (changed \/ r.changed)
    /\ pre' = module
    /\ pc' = "cp"
    /\ UNCHANGED <<inputs, iteration, dce_changed, cf_changed, cp_changed,
                   tables, out, exitCode, run>>
    /\ UNCHANGED semvars

RunCP ==
    /\ pc = "cp"
    /\ \E r \in {constant_propagation(module,
                    [GEN |-> GEN, KILL |-> KILL, all_stores |-> all_stores])} :
           /\ module' = r.m
           /\ cp_changed' = r.changed
           /\ changed' = (changed \/ r.changed)
           /\ GEN' = r.tables.GEN
           /\ KILL' = r.tables.KILL
           /\ all_stores' = r.tables.all_stores
    /\ pre' = module
    /\ pc' = "loop"
    /\ UNCHANGED <<inputs, iteration, dce_changed, cf_changed, cse_changed,
                   out, exitCode, run>>
    /\ UNCHANGED semvars

\* After the loop: print the module, dispose it, return 0.
WriteOutput ==
    /\ pc = "print"
    /\ out' = Append(out, LLVMPrintModuleToString(module))
    /\ module' = NoModule
    /\ exitCode' = 0
    /\ pc' = "done"
    /\ UNCHANGED <<inputs, changed, iteration, flags, tables, run, pre>>
    /\ UNCHANGED semvars

\* The optimizer is invoked again, on what the first invocation printed.
Rerun ==
    /\ pc = "done"
    /\ exitCode = 0
    /\ run = 1
    /\ run' = 2
    /\ file' = out[1]
    /\ out' = <<>>
    /\ pc' = "start"
    /\ exitCode' = -1
    /\ changed' = FALSE
    /\ iteration' = 0
    /\ dce_changed' = FALSE /\ cf_changed' = FALSE
    /\ cse_changed' = FALSE /\ cp_changed' = FALSE
    /\ GEN' = <<>> /\ KILL' = <<>> /\ all_stores' = {}
    /\ pre' = NoModule
    /\ UNCHANGED <<argc, fileOK, irOK, module>>
    /\ UNCHANGED semvars

Next ==
    \/ Load
    \/ LoopTest
    \/ RunDCE
    \/ RunCF
    \/ RunCSE
    \/ RunCP
    \/ WriteOutput
    \/ Rerun

Spec == Init /\ [][Next]_vars

\* The process is not suspended: whatever step main can take, it takes.
FairSpec == Spec /\ WF_vars(Next)


\* ============================================== the declaration checker
MaxStmts == 2

\* An AST node: its type, for a statement the statement type, its name
\* (variables and declarations) and its children, NullNode for a child that
\* is NULL.
Node(type, stype, name, kids) ==
    [type |-> type, stype |-> stype, name |-> name, kids |-> kids]

Var(name) == Node("ast_var", "", name, <<>>)
Cnst == Node("ast_cnst", "", "", <<>>)
RExpr(lhs, rhs) == Node("ast_rexpr", "", "", <<lhs, rhs>>)
BExpr(lhs, rhs) == Node("ast_bexpr", "", "", <<lhs, rhs>>)
UExpr(expr) == Node("ast_uexpr", "", "", <<expr>>)
CallStmt(param) == Node("ast_stmt", "ast_call", "", <<param>>)
Ret(expr) == Node("ast_stmt", "ast_ret", "", <<expr>>)
Block(stmt_list) == Node("ast_stmt", "ast_block", "", stmt_list)
While(cond, body) == Node("ast_stmt", "ast_while", "", <<cond, body>>)
If(cond, if_body, else_body) ==
    Node("ast_stmt", "ast_if", "", <<cond, if_body, else_body>>)
Decl(name) == Node("ast_stmt", "ast_decl", name, <<>>)
Asgn(lhs, rhs) == Node("ast_stmt", "ast_asgn", "", <<Var(lhs), rhs>>)
Func(param, body) == Node("ast_func", "", "", <<param, body>>)
Prog(func) == Node("ast_prog", "", "", <<func>>)

\* ------------------------------------------------------------ the scopes
enter_scope(sc) == Append(sc, {})

exit_scope(sc) == SubSeq(sc, 1, Len(sc) - 1)

\* Mutant: a name of any open scope counts as declared already.
declare_any_scope(sc, name) ==
    IF \E i \in DOMAIN sc : name \in sc[i]
    THEN [scopes |-> sc, ok |-> FALSE]
    ELSE [scopes |-> [sc EXCEPT ![Len(sc)] = @ \cup {name}], ok |-> TRUE]

\* declare on a stack that is not empty: the stack after it and what it
\* returned.
declare(sc, name) ==
    IF name \in sc[Len(sc)]
    THEN [scopes |-> sc, ok |-> FALSE]
    ELSE [scopes |-> [sc EXCEPT ![Len(sc)] = @ \cup {name}], ok |-> TRUE]

check_declared(sc, name) == \E i \in DOMAIN sc : name \in sc[i]

Duplicate(name) == [kind |-> "duplicate declaration", name |-> name]
Undeclared(name) == [kind |-> "used before declaration", name |-> name]

\* Mutant: every block has a scope of its own.
block_scoped_always(is_func_body) == TRUE

\* Whether a block statement enters and exits a scope.
block_scoped(is_func_body) == ~is_func_body

\* -------------------------------------------------------------- the visits
\* A visit still to make: of a node by visit_node, visit_prog, visit_func,
\* visit_stmt or visit_expr, or the exit_scope that ends a block or a
\* function.
Item(t, n, fb) == [t |-> t, n |-> n, fb |-> fb]

ExitItem == Item("exit", NullNode, FALSE)

NodeItems(list) == [i \in 1..Len(list) |-> Item("node", list[i], FALSE)]

\* What the variable use in an expression or assignment does to the state.
use_variable(st, name) ==
    IF check_declared(st.scopes, name) THEN st
    ELSE [st EXCEPT !.has_error = TRUE,
                    !.errors = Append(@, Undeclared(name))]

\* visit_stmt on node n of statement type n.stype, from state st (scopes,
\* has_error, errors, and the visits pending after this one).
visit_stmt(n, is_func_body, st) ==
    CASE n.stype = "ast_call" ->
             IF n.kids[1] # NullNode
             THEN [st EXCEPT !.pending = <<Item("expr", n.kids[1], FALSE)>> \o @]
             ELSE st
      [] n.stype = "ast_ret" ->
             [st EXCEPT !.pending = <<Item("expr", n.kids[1], FALSE)>> \o @]
      [] n.stype = "ast_block" ->
             IF block_scoped(is_func_body)
             THEN [st EXCEPT !.scopes = enter_scope(@),
                             !.pending = NodeItems(n.kids) \o <<ExitItem>> \o @]
             ELSE [st EXCEPT !.pending = NodeItems(n.kids) \o @]
      [] n.stype = "ast_while" ->
             [st EXCEPT !.pending = <<Item("expr", n.kids[1], FALSE),
                                      Item("stmt", n.kids[2], FALSE)>> \o @]
      [] n.stype = "ast_if" ->
             [st EXCEPT !.pending =
                 <<Item("expr", n.kids[1], FALSE), Item("stmt", n.kids[2], FALSE)>>
                 \o (IF n.kids[3] # NullNode
                     THEN <<Item("stmt", n.kids[3], FALSE)>> ELSE <<>>)
                 \o @]
      [] n.stype = "ast_decl" ->
             LET d == declare(st.scopes, n.name)
             IN  [st EXCEPT !.scopes = d.scopes,
                            !.has_error = @ \/ ~d.ok,
                            !.errors = IF d.ok THEN @ ELSE Append(@, Duplicate(n.name))]
      [] n.stype = "ast_asgn" ->
             [use_variable(st, n.kids[1].name)
                 EXCEPT !.pending = <<Item("expr", n.kids[2], FALSE)>> \o @]
      [] OTHER -> st

\* visit_expr on node n.
visit_expr(n, st) ==
    CASE n.type = "ast_var" -> use_variable(st, n.name)
      [] n.type \in {"ast_rexpr", "ast_bexpr"} ->
             [st EXCEPT !.pending = <<Item("expr", n.kids[1], FALSE),
                                      Item("expr", n.kids[2], FALSE)>> \o @]
      [] n.type = "ast_uexpr" ->
             [st EXCEPT !.pending = <<Item("expr", n.kids[1], FALSE)>> \o @]
      [] n.type = "ast_stmt" ->
             [st EXCEPT !.pending = <<Item("stmt", n, FALSE)>> \o @]
      [] OTHER -> st

\* visit_node on node n: the visit it calls.
visit_node(n) ==
    CASE n.type = "ast_prog" -> Item("prog", n, FALSE)
      [] n.type = "ast_func" -> Item("func", n, FALSE)
      [] n.type = "ast_stmt" -> Item("stmt", n, FALSE)
      [] OTHER -> Item("expr", n, FALSE)

\* --------------------------------------------------------- input programs
\* The statements of generated function bodies.
StmtPool ==
    {Decl("a"), Decl("b"),
     Asgn("a", Cnst), Asgn("b", Var("a")),
     Ret(BExpr(Var("a"), Var("b"))),
     Block(<<Decl("a")>>),
     Block(<<Decl("b"), Asgn("b", Cnst)>>),
     While(RExpr(Var("a"), Cnst), Block(<<Decl("a"), Asgn("a", Var("b"))>>)),
     If(Var("b"), Block(<<Decl("b")>>), NullNode)}

RECURSIVE StmtLists(_)
StmtLists(n) ==
    IF n = 0 THEN {<<>>}
    ELSE StmtLists(n - 1) \cup
         {Append(l, x) : l \in {k \in StmtLists(n - 1) : Len(k) = n - 1},
                         x \in StmtPool}

GeneratedASTs ==
    {Prog(Func(param, Block(l))) :
        param \in {NullNode, Var("a")}, l \in StmtLists(MaxStmts)}

\* int f(int a) { int a; }
SemParamRedeclared == Prog(Func(Var("a"), Block(<<Decl("a")>>)))

\* int f() { { int a; } a = 1; }
SemNestedThenUsed ==
    Prog(Func(NullNode, Block(<<Block(<<Decl("a")>>), Asgn("a", Cnst)>>)))

\* int f(int a) { { int a; a = 1; } return a; }
SemShadowed ==
    Prog(Func(Var("a"),
              Block(<<Block(<<Decl("a"), Asgn("a", Cnst)>>), Ret(Var("a"))>>)))

\* int f() { a = 1; int b; int b; b = -a + read(); print(b); }
SemErrorsThenMore ==
    Prog(Func(NullNode,
              Block(<<Asgn("a", Cnst), Decl("b"), Decl("b"),
                      Asgn("b", BExpr(UExpr(Var("a")), CallStmt(NullNode))),
                      CallStmt(Var("b"))>>)))

\* int f(int a) { while (a < 1) { if (a) { int b; } else { int b; b = a; } } }
SemNestedBlocks ==
    Prog(Func(Var("a"),
              Block(<<While(RExpr(Var("a"), Cnst),
                            Block(<<If(Var("a"),
                                       Block(<<Decl("b")>>),
                                       Block(<<Decl("b"), Asgn("b", Var("a"))>>))>>))>>)))

\* A function without a body.
SemNoBody == Prog(Func(Var("a"), NullNode))

ProgramASTs ==
    GeneratedASTs \cup
    {SemParamRedeclared, SemNestedThenUsed, SemShadowed, SemErrorsThenMore,
     SemNestedBlocks, SemNoBody}

\* Roots that are not program nodes: a declaration, an assignment, an
\* expression, nothing.
OtherRoots == {Decl("a"), Asgn("a", Var("b")), Var("a"), NullNode}

\* ------------------------------------------------------------ check
\* The optimizer is not running.
OptIdle ==
    /\ argc = 0 /\ fileOK = FALSE /\ irOK = FALSE
    /\ file = <<>>
    /\ pc = "idle"
    /\ module = NoModule
    /\ changed = FALSE
    /\ iteration = 0
    /\ dce_changed = FALSE /\ cf_changed = FALSE
    /\ cse_changed = FALSE /\ cp_changed = FALSE
    /\ GEN = <<>> /\ KILL = <<>> /\ all_stores = {}
    /\ out = <<>>
    /\ exitCode = -1
    /\ run = 0
    /\ pre = NoModule

\* check_semantics is called: a checker with an empty stack is constructed.
SemInit ==
    /\ OptIdle
    /\ root \in ProgramASTs \cup OtherRoots
    /\ scopes = <<>>
    /\ has_error \in BOOLEAN
    /\ pending = <<>>
    /\ errors = <<>>
    /\ result = -1
    /\ at = "check"

SemState == [scopes |-> scopes, has_error |-> has_error, errors |-> errors,
             pending |-> Tail(pending)]

SetSemState(st) ==
    /\ scopes' = st.scopes
    /\ has_error' = st.has_error
    /\ errors' = st.errors
    /\ pending' = st.pending

\* check: the flag is cleared and the root is visited.
Check ==
    /\ at = "check"
    /\ has_error' = FALSE
    /\ pending' = <<Item("node", root, FALSE)>>
    /\ at' = "visit"
    /\ UNCHANGED <<root, scopes, errors, result, optvars>>

Visiting(t) == at = "visit" /\ pending # <<>> /\ Head(pending).t = t

VisitNode ==
    /\ Visiting("node")
    /\ pending' = IF Head(pending).n = NullNode THEN Tail(pending)
                  ELSE <<visit_node(Head(pending).n)>> \o Tail(pending)
    /\ UNCHANGED <<root, scopes, has_error, errors, result, at, optvars>>

VisitProg ==
    /\ Visiting("prog")
    /\ pending' = <<Item("func", Head(pending).n.kids[1], FALSE)>> \o Tail(pending)
    /\ UNCHANGED <<root, scopes, has_error, errors, result, at, optvars>>

\* visit_func up to its call of visit_stmt; its exit_scope is left pending.
\* The declaration of the parameter in the new scope cannot fail.
VisitFunc ==
    /\ Visiting("func")
    /\ LET n == Head(pending).n
       IN  /\ scopes' = IF n.kids[1] # NullNode
                        THEN declare(enter_scope(scopes), n.kids[1].name).scopes
                        ELSE enter_scope(scopes)
           /\ pending' = <<Item("stmt", n.kids[2], TRUE), ExitItem>> \o Tail(pending)
    /\ UNCHANGED <<root, has_error, errors, result, at, optvars>>

\* A declaration is visited while the stack is empty.
DeclareOnEmptyStack ==
    /\ Visiting("stmt")
    /\ Head(pending).n.stype = "ast_decl"
    /\ scopes = <<>>

VisitStmt ==
    /\ Visiting("stmt")
    /\ ~DeclareOnEmptyStack
    /\ SetSemState(IF Head(pending).n = NullNode THEN SemState
                   ELSE visit_stmt(Head(pending).n, Head(pending).fb, SemState))
    /\ UNCHANGED <<root, result, at, optvars>>

\* scopes.top() of an empty stack is undefined behaviour: the call may end
\* the process or return anything.
VisitStmtUndefined ==
    /\ DeclareOnEmptyStack
    /\ at' = "undefined"
    /\ result' \in {-1, 0, 1}
    /\ has_error' \in BOOLEAN
    /\ UNCHANGED <<root, scopes, pending, errors, optvars>>

VisitExpr ==
    /\ Visiting("expr")
    /\ SetSemState(IF Head(pending).n = NullNode THEN SemState
                   ELSE visit_expr(Head(pending).n, SemState))
    /\ UNCHANGED <<root, result, at, optvars>>

\* The exit_scope at the end of a nested block or of visit_func.
ExitScope ==
    /\ Visiting("exit")
    /\ scopes # <<>>
    /\ scopes' = exit_scope(scopes)
    /\ pending' = Tail(pending)
    /\ UNCHANGED <<root, has_error, errors, result, at, optvars>>

\* visit_node(root) has returned: check returns.
CheckReturn ==
    /\ at = "visit"
    /\ pending = <<>>
    /\ result' = IF has_error THEN 1 ELSE 0
    /\ at' = "done"
    /\ UNCHANGED <<root, scopes, has_error, pending, errors, optvars>>

SemNext ==
    \/ Check
    \/ VisitNode
    \/ VisitProg
    \/ VisitFunc
    \/ VisitStmt
    \/ VisitStmtUndefined
    \/ VisitExpr
    \/ ExitScope
    \/ CheckReturn

SemSpec == SemInit /\ [][SemNext]_vars

\* ================================================================ properties
\* main is between two passes (or before the first, or after the last).
InLoop == pc \in {"loop", "dce", "cf", "cse", "cp", "print"}

AfterDCE == pc = "cf"
AfterCF == pc = "cse"
AfterCSE == pc = "cp"
AfterCP == pc = "loop" /\ iteration > 0

Finished == pc = "done" /\ exitCode = 0

Operands(m, id) == m.insts[id].args
Uses(m, id) == Range(UseList(m.uses, InstV(id)))
Present(m, id) == \E b \in DOMAIN m.blocks : id \in Range(m.blocks[b])

\* ---------------------------------------------------------------------- C1
\* C1: for every input module the round loop stops: main leaves the loop
\* (at a fixed point, or with the fatal error of an exceeded round cap) and
\* the process ends.
C1_DriverStops == <>(pc = "done")

\* ---------------------------------------------------------------------- C2
\* C2: for [store addr_a, 42; %2 = load addr_a; ret %2] the converged module
\* is the single instruction ret 42.
C2_StoreLoadForwarded ==
    (Finished /\ run = 1 /\ file = ProgStoreLoad) =>
        out[1].code[1] = <<Inst(3, "ret", 0, <<I8(42)>>)>>

\* ---------------------------------------------------------------------- C3
SideEffecting ==
    {"store", "call", "alloca", "fence", "cmpxchg", "atomicrmw",
     "ret", "br", "switch", "indirectbr", "invoke", "unreachable"}

\* A step of a pass keeps every instruction with a side-effecting opcode.
SideEffectsKeptStep ==
    pc \in {"dce", "cf", "cse", "cp"} =>
        \A b \in DOMAIN module.blocks : \A id \in Range(module.blocks[b]) :
            module.insts[id].op \in SideEffecting =>
                (id \in Range(module'.blocks[b]) /\ id \in DOMAIN module'.insts)

Occurrences(list, e) == Cardinality({j \in 1..Len(list) : list[j] = e})

UseDefConsistent(m) ==
    /\ \A id \in DOMAIN m.insts : \A i \in 1..Len(Operands(m, id)) :
           /\ Occurrences(UseList(m.uses, Operands(m, id)[i]),
                          [user |-> id, idx |-> i]) = 1
           /\ Operands(m, id)[i].k = "inst" => Operands(m, id)[i].v \in DOMAIN m.insts
    /\ \A val \in DOMAIN m.uses : \A j \in 1..Len(m.uses[val]) :
           /\ m.uses[val][j].user \in DOMAIN m.insts
           /\ m.uses[val][j].idx \in 1..Len(Operands(m, m.uses[val][j].user))
           /\ Operands(m, m.uses[val][j].user)[m.uses[val][j].idx] = val
    /\ \A id \in DOMAIN m.insts : Present(m, id)
    /\ \A b \in DOMAIN m.blocks : Range(m.blocks[b]) \subseteq DOMAIN m.insts

\* C4: after the parse and after every pass, V is operand i of A iff V's
\* use-list holds the edge (A, i) exactly once, and no operand refers to an
\* erased instruction.
C4_UseDefConsistent == InLoop => UseDefConsistent(module)

\* A second round in which DCE erased an instruction that lost its uses to a
\* fold or a merge of the first round, while other instructions keep uses.
C4_Witness ==
    /\ pc = "loop" /\ iteration >= 2
    /\ dce_changed
    /\ \E id \in DOMAIN module.insts : Uses(module, id) # {}

\* ---------------------------------------------------------------------- C5
\* Positions ia < ib of block sequence s hold two loads of one address with
\* a store to that address strictly between them.
LoadStoreLoad(m, s, ia, ib) ==
    /\ ia < ib
    /\ m.insts[s[ia]].op = "load" /\ m.insts[s[ib]].op = "load"
    /\ Operands(m, s[ia]) = Operands(m, s[ib])
    /\ \E j \in (ia + 1)..(ib - 1) :
           /\ m.insts[s[j]].op = "store"
           /\ Operands(m, s[j])[2] = Operands(m, s[ia])[1]

\* C5: a CSE pass moves no use of a load B to an earlier load A of the same
\* address when a store to that address lies strictly between A and B.
C5_LoadNotMergedAcrossStore ==
    AfterCSE =>
        \A b \in DOMAIN pre.blocks :
            \A ia, ib \in 1..Len(pre.blocks[b]) :
                LoadStoreLoad(pre, pre.blocks[b], ia, ib) =>
                    \A e \in Uses(pre, pre.blocks[b][ib]) :
                        Operands(module, e.user)[e.idx] # InstV(pre.blocks[b][ia])

\* CSE ran on [%1 = load a; store a, v; %3 = load a; ret %3] and the uses of
\* %3 are still on %3.
C5_Witness ==
    /\ AfterCSE
    /\ \E b \in DOMAIN pre.blocks : \E ia, ib \in 1..Len(pre.blocks[b]) :
           /\ LoadStoreLoad(pre, pre.blocks[b], ia, ib)
           /\ Uses(pre, pre.blocks[b][ib]) # {}
           /\ Uses(module, pre.blocks[b][ib]) = Uses(pre, pre.blocks[b][ib])

\* ---------------------------------------------------------------------- C6
\* Same opcode, same operand count, identical operands at every index.
Equivalent(m, a, b) ==
    /\ m.insts[a].op = m.insts[b].op
    /\ Operands(m, a) = Operands(m, b)

\* In graph m, positions ia < ib of block sequence s hold equivalent
\* instructions that CSE may merge: not a call, store, alloca or terminator
\* and, for loads, no store to the loaded address strictly between them.
Mergeable(m, s, ia, ib) ==
    /\ ia < ib
    /\ Equivalent(m, s[ia], s[ib])
    /\ m.insts[s[ia]].op \notin {"call", "store", "alloca", "ret", "br", "unreachable"}
    /\ m.insts[s[ia]].op = "load" =>
           ~\E j \in (ia + 1)..(ib - 1) :
               /\ m.insts[s[j]].op = "store"
               /\ Operands(m, s[j])[2] = Operands(m, s[ia])[1]

HasEarlier(m, s, ib) == \E ia \in 1..Len(s) : Mergeable(m, s, ia, ib)

\* The earliest instruction of s that position ib may be merged into.
Earliest(m, s, ib) ==
    s[CHOOSE ia \in 1..Len(s) :
          /\ Mergeable(m, s, ia, ib)
          /\ \A k \in 1..(ia - 1) : ~Mergeable(m, s, k, ib)]

\* After a CSE pass, every B that graph m pairs with an earlier instruction
\* has no use left, and what used B when the pass started now uses the
\* earliest such instruction, which is still in the block.
MergedOntoEarliest(m) ==
    \A b \in DOMAIN pre.blocks : \A ib \in 1..Len(pre.blocks[b]) :
        HasEarlier(m, pre.blocks[b], ib) =>
            /\ Uses(module, pre.blocks[b][ib]) = {}
            /\ \A e \in Uses(pre, pre.blocks[b][ib]) :
                   Operands(module, e.user)[e.idx] = InstV(Earliest(m, pre.blocks[b], ib))
            /\ Earliest(m, pre.blocks[b], ib) \in Range(module.blocks[b])

\* C6 as stated: the pairs are those equivalent when the pass started.
C6_MergedOntoEarliestAtStart == AfterCSE => MergedOntoEarliest(pre)

\* C6 as amended: the pairs are those equivalent when the pass compares them,
\* which are those equivalent when the pass ends.
C6_MergedOntoEarliest == AfterCSE => MergedOntoEarliest(module)

\* CSE ran on [%1 = load a; %2 = mul %1, 5; %3 = load a; %4 = add %2, %3]
\* and %4 now adds %2 and %1.
C6_Witness ==
    /\ AfterCSE /\ run = 1 /\ iteration = 1 /\ file = ProgLoadMulLoad
    /\ Operands(pre, 4) = <<InstV(2), InstV(3)>>
    /\ Operands(module, 4) = <<InstV(2), InstV(1)>>
    /\ Uses(module, 3) = {}

\* ---------------------------------------------------------------------- C7
\* The integer of w bits, in two's complement, congruent to x modulo 2^w.
TwosComplement(x, w) ==
    CHOOSE r \in (0 - Pow2(w - 1))..(Pow2(w - 1) - 1) : (x - r) % Pow2(w) = 0

Exact(op, a, b) ==
    CASE op = "add" -> a + b
      [] op = "sub" -> a - b
      [] op = "mul" -> a * b

\* An add, sub or mul of graph m whose two operands are constants.
ConstantArith(m, id) ==
    /\ m.insts[id].op \in {"add", "sub", "mul"}
    /\ Operands(m, id)[1].k = "const"
    /\ Operands(m, id)[2].k = "const"

\* C7: after a constant-folding pass, what used an add, sub or mul of two
\* constants a and b of width w uses the constant (a op b) reduced modulo
\* 2^w in two's complement; add(10, 20) gives 30 and sub(5, 8) gives -3.
C7_FoldWraps ==
    AfterCF =>
        /\ \A id \in DOMAIN module.insts :
               ConstantArith(module, id) =>
                   /\ Uses(module, id) = {}
                   /\ \A e \in Uses(pre, id) :
                          Operands(module, e.user)[e.idx] =
                              ConstV(module.insts[id].ty,
                                     TwosComplement(Exact(module.insts[id].op,
                                                          Operands(module, id)[1].v,
                                                          Operands(module, id)[2].v),
                                                    module.insts[id].ty))
        /\ (run = 1 /\ iteration = 1 /\ file = ProgFold) =>
               /\ Operands(module, 3) = <<I8(30), I8(-3)>>
               /\ Operands(module, 5) = <<I8(-3)>>

\* A fold whose exact result does not fit the width: the user now holds the
\* wrapped constant.
C7_Witness ==
    /\ AfterCF
    /\ \E id \in DOMAIN module.insts :
           /\ ConstantArith(module, id)
           /\ Uses(pre, id) # {}
           /\ Exact(module.insts[id].op, Operands(module, id)[1].v,
                    Operands(module, id)[2].v) >= Pow2(module.insts[id].ty - 1)
           /\ \A e \in Uses(pre, id) : Operands(module, e.user)[e.idx].k = "const"

\* ---------------------------------------------------------------------- C8
\* C8: a constant-folding pass creates and erases no instruction; an add,
\* sub or mul of two constants is still in its block and has no use; any
\* other instruction has the uses it had.
C8_FoldFrame ==
    AfterCF =>
        /\ module.funcs = pre.funcs
        /\ module.blocks = pre.blocks
        /\ DOMAIN module.insts = DOMAIN pre.insts
        /\ \A id \in DOMAIN pre.insts :
               /\ module.insts[id].op = pre.insts[id].op
               /\ Present(module, id)
               /\ IF ConstantArith(module, id)
                  THEN Uses(module, id) = {}
                  ELSE /\ Uses(module, id) = Uses(pre, id)
                       /\ \A e \in Uses(pre, id) :
                              Operands(module, e.user)[e.idx] = InstV(id)

\* A pass that folded an instruction that had uses, next to an instruction
\* that is not folded and keeps its uses.
C8_Witness ==
    /\ AfterCF /\ cf_changed
    /\ \E f, g \in DOMAIN module.insts :
           /\ ConstantArith(module, f) /\ Uses(pre, f) # {} /\ Present(module, f)
           /\ ~ConstantArith(module, g) /\ Uses(module, g) # {}

\* ---------------------------------------------------------------------- C9
\* C9: a second run of the driver, on the output of a run that terminated,
\* makes one round, in which no pass reports a change, and prints its input
\* again.
C9_SecondRunIdle ==
    run = 2 =>
        /\ iteration <= 1
        /\ ~dce_changed /\ ~cf_changed /\ ~cse_changed /\ ~cp_changed
        /\ InLoop => LLVMPrintModuleToString(module) = file
        /\ Finished => (iteration = 1 /\ out = <<file>>)

\* The second run has ended on the output of a first run that folded and
\* erased instructions of ProgFold.
C9_Witness ==
    /\ run = 2
    /\ Finished
    /\ iteration = 1
    /\ file.code = << <<Inst(4, "store", 0, <<I8(-90), addr_a>>),
                        Inst(5, "ret", 0, <<I8(-3)>>)>> >>

\* --------------------------------------------------------------------- C10
BlockOf(m, id) == CHOOSE b \in DOMAIN m.blocks : id \in Range(m.blocks[b])

\* The blocks control can pass to from block b: the block operands of its
\* last instruction.
Successors(m, b) ==
    IF m.blocks[b] = <<>> THEN {}
    ELSE {v.v : v \in {x \in Range(Operands(m, m.blocks[b][Len(m.blocks[b])])) :
                           x.k = "block"}}

Stores(m) == {id \in DOMAIN m.insts : m.insts[id].op = "store"}

\* The last store of block b to each address written in b.
LastStores(m, b) ==
    {m.blocks[b][i] : i \in
        {j \in 1..Len(m.blocks[b]) :
            /\ m.blocks[b][j] \in Stores(m)
            /\ \A k \in (j + 1)..Len(m.blocks[b]) :
                   ~(/\ m.blocks[b][k] \in Stores(m)
                     /\ Operands(m, m.blocks[b][k])[2] = Operands(m, m.blocks[b][j])[2])}}

\* The stores that leave block b when the stores of set in enter it.
Through(m, b, in) ==
    LastStores(m, b) \cup
        {st \in in : \A l \in LastStores(m, b) :
                         Operands(m, l)[2] # Operands(m, st)[2]}

\* The stores at the end of each block after n rounds of the reaching-stores
\* equations, from empty sets.
RECURSIVE ReachOut(_, _)
ReachOut(m, n) ==
    IF n = 0 THEN [b \in DOMAIN m.blocks |-> {}]
    ELSE LET prev == ReachOut(m, n - 1)
         IN  [b \in DOMAIN m.blocks |->
                 Through(m, b,
                     UNION {prev[p] : p \in {q \in DOMAIN m.blocks :
                                                b \in Successors(m, q)}})]

\* The stores that reach the entry of block b.
ReachIn(m, b) ==
    UNION {ReachOut(m, Len(m.blocks))[p] :
              p \in {q \in DOMAIN m.blocks : b \in Successors(m, q)}}

\* The stores to the address of load l that reach l.
ReachingLoad(m, l) ==
    LET b == BlockOf(m, l)
        pos == CHOOSE i \in 1..Len(m.blocks[b]) : m.blocks[b][i] = l
        before == {j \in 1..(pos - 1) :
                      /\ m.blocks[b][j] \in Stores(m)
                      /\ Operands(m, m.blocks[b][j])[2] = Operands(m, l)[1]}
    IN  IF before # {}
        THEN {m.blocks[b][CHOOSE j \in before : \A k \in before : k <= j]}
        ELSE {st \in ReachIn(m, b) : Operands(m, st)[2] = Operands(m, l)[1]}

\* More than one store reaches the load, or a store of a value that is not
\* a constant.
Ambiguous(m, l) ==
    \/ Cardinality(ReachingLoad(m, l)) > 1
    \/ \E st \in ReachingLoad(m, l) : Operands(m, st)[1].k # "const"

\* C10: the propagation pass leaves every use of a load in place when more
\* than one store to the loaded address reaches the load or when a reaching
\* store writes a value that is not a constant; in the diamond whose
\* branches store 1 and 2 to addr_a, the return still uses the load.
C10_AmbiguousLoadKept ==
    AfterCP =>
        /\ \A l \in DOMAIN pre.insts :
               (pre.insts[l].op = "load" /\ Ambiguous(pre, l)) =>
                   /\ Present(module, l)
                   /\ Uses(module, l) = Uses(pre, l)
                   /\ \A e \in Uses(pre, l) :
                          Operands(module, e.user)[e.idx] = InstV(l)
        /\ (run = 1 /\ file = ProgDiamond) => Operands(module, 8) = <<InstV(7)>>

\* The pass has run on the diamond: the stores of 1 and of 2 both reach the
\* load, which the return uses.
C10_Witness ==
    /\ AfterCP
    /\ run = 1 /\ file = ProgDiamond
    /\ ReachingLoad(pre, 7) = {3, 5}
    /\ Ambiguous(pre, 7)
    /\ Uses(module, 7) # {}

\* --------------------------------------------------------------------- C11
BadInvocation == argc # 2 \/ ~fileOK \/ ~irOK

\* C11: an invocation with a wrong argument count, an unreadable file or IR
\* that does not parse ends with exit code 1, has run no pass and has written
\* nothing; any other invocation writes the module once, after the loop, and
\* ends with exit code 0.
C11_ExitAndOutput ==
    /\ BadInvocation =>
           /\ pc \in {"start", "done"}
           /\ out = <<>>
           /\ module = NoModule /\ pre = NoModule /\ iteration = 0
           /\ exitCode = IF pc = "done" THEN 1 ELSE -1
    /\ ~BadInvocation =>
           /\ Len(out) <= 1
           /\ exitCode = IF pc = "done" THEN 0 ELSE -1
           /\ (out # <<>>) <=> (pc = "done")
           /\ pc = "done" => iteration >= 1

\* An invocation on IR that does not parse has ended.
C11_Witness ==
    /\ argc = 2 /\ fileOK /\ ~irOK
    /\ pc = "done"
    /\ exitCode = 1

\* --------------------------------------------------------------------- C12
AnyReported == dce_changed \/ cf_changed \/ cse_changed \/ cp_changed

\* What a step of main inside the loop does to its position and to changed.
RoundStep ==
    /\ pc = "loop" => pc' = IF changed THEN "dce" ELSE "print"
    /\ pc = "dce" => (pc' = "cf" /\ changed' = (changed \/ dce_changed'))
    /\ pc = "cf" => (pc' = "cse" /\ changed' = (changed \/ cf_changed')
                        /\ dce_changed' = dce_changed)
    /\ pc = "cse" => (pc' = "cp" /\ changed' = (changed \/ cse_changed')
                         /\ dce_changed' = dce_changed /\ cf_changed' = cf_changed)
    /\ pc = "cp" => (pc' = "loop" /\ changed' = (changed \/ cp_changed')
                        /\ dce_changed' = dce_changed /\ cf_changed' = cf_changed
                        /\ cse_changed' = cse_changed)

\* At the end of a round changed says whether a pass reported a change, and
\* main is past the loop only after a round in which none did.
RoundState ==
    /\ (pc = "loop" /\ iteration > 0) => (changed <=> AnyReported)
    /\ pc = "dce" => ~changed
    /\ pc = "print" => (iteration >= 1 /\ ~AnyReported)

\* C12: in every round the four passes run once each in the order DCE,
\* constant folding, CSE, store propagation, whatever the earlier ones
\* reported; the round is changed exactly if one of them reported a change,
\* and the loop ends only after a round in which none did.
C12_RoundOrder == [][RoundStep]_vars /\ []RoundState

\* The end of a round in which DCE reported a change and constant folding
\* reported none.
C12_Witness ==
    /\ pc = "loop" /\ iteration > 0
    /\ dce_changed /\ ~cf_changed /\ changed

\* --------------------------------------------------------------------- C13
PresentIds(m) == {id \in DOMAIN m.insts : Present(m, id)}

\* A step of a pass: an instruction leaves its block only in DCE, and then
\* no instruction that stays uses it.
ErasedOnlyByDCEStep ==
    pc \in {"dce", "cf", "cse", "cp"} =>
        /\ PresentIds(module') \subseteq PresentIds(module)
        /\ pc # "dce" => PresentIds(module') = PresentIds(module)
        /\ \A id \in PresentIds(module) \ PresentIds(module') :
               /\ \A e \in Uses(module, id) : e.user \notin PresentIds(module')
               /\ \A u \in PresentIds(module') :
                      InstV(id) \notin Range(Operands(module', u))

\* C13: an instruction leaves its block only during a DCE pass, and nothing
\* uses it when it is erased; constant folding, CSE and store propagation
\* erase no instruction.
C13_ErasedOnlyByDCE == [][ErasedOnlyByDCEStep]_vars

\* One DCE sweep over ProgLayout erased the unused addition and then the
\* load that the addition used.
C13_Witness ==
    /\ AfterDCE
    /\ run = 1 /\ iteration = 1 /\ file = ProgLayout
    /\ Uses(pre, 4) # {}
    /\ ~Present(module, 2)
    /\ ~Present(module, 4)

\* --------------------------------------------------------------------- C14
\* Every block ends in a terminator and has none before its end.
WellFormed(m) ==
    \A b \in DOMAIN m.blocks :
        /\ m.blocks[b] # <<>>
        /\ \A i \in 1..Len(m.blocks[b]) :
               (m.insts[m.blocks[b][i]].op \in {"ret", "br", "unreachable"})
                   <=> (i = Len(m.blocks[b]))

\* C14: when every block of the input ends in exactly one terminator, so
\* does every block after every pass of every round, and it is the
\* terminator the block had, with the operands it had unless they were
\* replaced.
C14_TerminatorsKept ==
    (InLoop /\ WellFormed(LLVMParseIRInContext(file))) =>
        /\ WellFormed(module)
        /\ DOMAIN module.blocks = DOMAIN file.code
        /\ \A b \in DOMAIN module.blocks :
               LET t == file.code[b][Len(file.code[b])]
               IN  /\ module.blocks[b][Len(module.blocks[b])] = t.id
                   /\ module.insts[t.id].op = t.op

\* DCE emptied the second block of ProgAlloca down to its terminator.
C14_Witness ==
    /\ AfterDCE /\ dce_changed
    /\ run = 1 /\ file = ProgAlloca
    /\ WellFormed(module)
    /\ module.blocks[2] = <<7>>

\* --------------------------------------------------------------------- C15
CSEExcluded == {"call", "store", "alloca"} \cup TerminatorOpcodes

\* C15: a CSE pass moves no use away from and no use onto a call, a store,
\* an alloca or a terminator, and it reports a change only when the block
\* holds a pair of equivalent instructions of another opcode.
C15_ExcludedNeverMerged ==
    AfterCSE =>
        /\ \A id \in PresentIds(pre) :
               pre.insts[id].op \in CSEExcluded =>
                   /\ Uses(module, id) = Uses(pre, id)
                   /\ \A e \in Uses(pre, id) :
                          Operands(module, e.user)[e.idx] = InstV(id)
        /\ cse_changed =>
               \E b \in DOMAIN module.blocks :
                   \E ia, ib \in 1..Len(module.blocks[b]) :
                       /\ Mergeable(module, module.blocks[b], ia, ib)
                       /\ module.insts[module.blocks[b][ia]].op \notin CSEExcluded

\* CSE ran over ProgCalls: the equal loads are merged, the equal calls both
\* keep their use.
C15_Witness ==
    /\ AfterCSE /\ cse_changed
    /\ run = 1 /\ iteration = 1 /\ file = ProgCalls
    /\ Operands(module, 6) = <<InstV(4), InstV(4)>>
    /\ Operands(module, 3) = <<InstV(1), InstV(2)>>

\* --------------------------------------------------------------------- C16
PositionIn(s, id) == CHOOSE i \in 1..Len(s) : s[i] = id

FunctionOfBlock(m, b) == CHOOSE j \in DOMAIN m.funcs : b \in Range(m.funcs[j])

\* C16: when a CSE pass has moved a use of an instruction B, the use is on
\* an instruction A of the block of B, before B; equivalent instructions of
\* different blocks stay apart, as the additions of ProgTwoBlocks.
C16_BlockLocal ==
    AfterCSE =>
        /\ \A id \in PresentIds(pre) : \A e \in Uses(pre, id) :
               LET now == Operands(module, e.user)[e.idx]
                   b == BlockOf(pre, id)
               IN  now # InstV(id) =>
                       /\ now.k = "inst"
                       /\ now.v \in Range(pre.blocks[b])
                       /\ FunctionOfBlock(pre, BlockOf(pre, now.v)) =
                              FunctionOfBlock(pre, b)
                       /\ PositionIn(pre.blocks[b], now.v) <
                              PositionIn(pre.blocks[b], id)
        /\ (run = 1 /\ iteration = 1 /\ file = ProgTwoBlocks) =>
               /\ Operands(module, 2) = <<InstV(1), addr_a>>
               /\ Operands(module, 6) = <<InstV(4), InstV(4)>>

\* CSE ran over ProgTwoBlocks: the additions of the second block are
\* merged, the equivalent addition of the first block has the use it had.
C16_Witness ==
    /\ AfterCSE /\ cse_changed
    /\ run = 1 /\ iteration = 1 /\ file = ProgTwoBlocks
    /\ Equivalent(module, 1, 4)
    /\ Uses(module, 1) = Uses(pre, 1)
    /\ Uses(module, 5) = {}

\* --------------------------------------------------------------------- C17
\* The stores of the blocks of function f (a sequence of blocks).
FunctionStores(m, f) ==
    {id \in Stores(m) : \E j \in 1..Len(f) : id \in Range(m.blocks[f[j]])}

\* The stores of the function to an address that a store of block b writes.
KillOfBlock(m, f, b) ==
    {st \in FunctionStores(m, f) :
        \E t \in Range(m.blocks[b]) :
            /\ t \in Stores(m)
            /\ Operands(m, t)[2] = Operands(m, st)[2]}

\* C17: after the analysis of a function, KILL of each of its blocks is the
\* set of all the stores of the function, those of the block included, to
\* an address that a store of the block writes.
C17_KillAllSameAddress ==
    AfterCP =>
        \A j \in DOMAIN pre.funcs : \A b \in Range(pre.funcs[j]) :
            analyse_function(pre, pre.funcs[j]).KILL[b] =
                KillOfBlock(pre, pre.funcs[j], b)

\* --------------------------------------------------------------------- C18
\* C18: after the analysis of a function, GEN of each of its blocks is the
\* set of the stores of the block that no later store of the block
\* overwrites: at most one store for an address, the last one; the tables
\* main is left with are those of the last function.
C18_GenLastStores ==
    AfterCP =>
        /\ \A j \in DOMAIN pre.funcs : \A b \in Range(pre.funcs[j]) :
               LET gen == analyse_function(pre, pre.funcs[j]).GEN[b]
               IN  /\ gen = LastStores(pre, b)
                   /\ \A x, y \in gen :
                          Operands(pre, x)[2] = Operands(pre, y)[2] => x = y
        /\ GEN = analyse_function(pre, pre.funcs[Len(pre.funcs)]).GEN

\* The analysis ran on a block with two stores to one address: only the
\* second is in GEN.
C18_Witness ==
    /\ AfterCP
    /\ \E b \in DOMAIN GEN : \E x \in Range(pre.blocks[b]) : \E y \in GEN[b] :
           /\ x \in Stores(pre)
           /\ x \notin GEN[b]
           /\ Operands(pre, x)[2] = Operands(pre, y)[2]
           /\ PositionIn(pre.blocks[b], x) < PositionIn(pre.blocks[b], y)

\* --------------------------------------------------------------------- C19
\* C19: constant_propagation leaves the graph as it is, use-lists included,
\* and reports no change.
C19_PropagationIdle ==
    AfterCP => (module = pre /\ ~cp_changed)

\* The pass ran on ProgStoreLoad, where a store of a constant reaches a load
\* that has a use.
C19_Witness ==
    /\ AfterCP
    /\ run = 1 /\ file = ProgStoreLoad
    /\ GEN[1] = {1}
    /\ Uses(module, 2) # {}

\* --------------------------------------------------------------------- C20
\* C20: when main leaves the loop, every instruction that is still in a
\* block has a use or an opcode with a side effect, however many rounds the
\* chain of dead instructions took.
C20_NoDeadCodeLeft ==
    pc = "print" =>
        \A id \in PresentIds(module) :
            Uses(module, id) = {} => module.insts[id].op \in SideEffecting

\* main leaves the loop on ProgDeadChain after DCE erased one instruction of
\* the chain in each of three rounds.
C20_Witness ==
    /\ pc = "print"
    /\ run = 1 /\ file = ProgDeadChain
    /\ iteration = 4
    /\ module.blocks[1] = <<4>>

\* --------------------------------------------------------------------- C21
\* The block of graph m holds a pair that CSE merges.
HasMergeable(m) ==
    \E b \in DOMAIN m.blocks : \E ia, ib \in 1..Len(m.blocks[b]) :
        Mergeable(m, m.blocks[b], ia, ib)

PlainOpcodes ==
    {"add", "sub", "mul", "icmp", "load", "store", "alloca", "call",
     "ret", "br", "unreachable"}

\* Every instruction of IR text has one of the plain opcodes.
PlainInput(text) ==
    \A b \in DOMAIN text.code : \A i \in DOMAIN text.code[b] :
        text.code[b][i].op \in PlainOpcodes

\* C22: on a module of add, sub, mul, icmp, load, store, alloca, call, ret,
\* br and unreachable instructions, main comes to the end of a round in
\* which no pass reported a change and leaves the loop.
C22_PlainInputTerminates ==
    (~BadInvocation /\ PlainInput(file)) => <>(pc = "print" /\ ~AnyReported)

\* main leaves the loop on a module of plain opcodes after more than two
\* rounds, the last without a reported change.
C22_Witness ==
    /\ pc = "print"
    /\ run = 1
    /\ PlainInput(file)
    /\ iteration >= 3
    /\ ~AnyReported

\* --------------------------------------------------------------------- C23
\* The tables hold the blocks and the stores of function f of graph m and
\* nothing else.
TablesOf(t, m, f) ==
    /\ DOMAIN t.GEN = Range(f)
    /\ DOMAIN t.KILL = Range(f)
    /\ t.all_stores = FunctionStores(m, f)
    /\ \A b \in Range(f) :
           /\ t.GEN[b] \subseteq FunctionStores(m, f)
           /\ t.KILL[b] \subseteq FunctionStores(m, f)

\* C23: after a function was analysed GEN and KILL have an entry for the
\* blocks of that function and for no other block, and all_stores is the
\* set of the stores of that function, whatever the tables held from the
\* function before or from the round before.
C23_TablesFunctionLocal ==
    AfterCP =>
        /\ \A j \in DOMAIN pre.funcs :
               TablesOf(cp_functions(pre, SubSeq(pre.funcs, 1, j), NoTables),
                        pre, pre.funcs[j])
        /\ TablesOf([GEN |-> GEN, KILL |-> KILL, all_stores |-> all_stores],
                    pre, pre.funcs[Len(pre.funcs)])

\* The second round on ProgTwoFunctions: the tables hold the second
\* function only, although the first function has stores and the tables
\* were filled in the first round.
C23_Witness ==
    /\ AfterCP
    /\ run = 1 /\ iteration = 2 /\ file = ProgTwoFunctions
    /\ DOMAIN GEN = {2}
    /\ all_stores = {5}
    /\ FunctionStores(pre, pre.funcs[1]) = {1, 2}

\* --------------------------------------------------------------------- C24
\* The traversal of node n by structural recursion: open is the sequence of
\* the open scopes, innermost last, msgs the errors found so far. A block
\* that shares the scope of its function opens none; the scopes after a
\* block or a function are those before it.
RECURSIVE Walk(_, _, _)
RECURSIVE WalkAll(_, _, _)
Walk(n, shares, st) ==
    LET use(name, t) ==
            IF \E i \in DOMAIN t.open : name \in t.open[i] THEN t
            ELSE [t EXCEPT !.msgs = Append(@, Undeclared(name))]
    IN  CASE n = NullNode -> st
          [] n.type = "ast_prog" -> Walk(n.kids[1], FALSE, st)
          [] n.type = "ast_func" ->
                 [open |-> st.open,
                  msgs |-> Walk(n.kids[2], TRUE,
                                [st EXCEPT !.open =
                                    Append(@, IF n.kids[1] = NullNode THEN {}
                                              ELSE {n.kids[1].name})]).msgs]
          [] n.type = "ast_var" -> use(n.name, st)
          [] n.type \in {"ast_rexpr", "ast_bexpr", "ast_uexpr"} ->
                 WalkAll(n.kids, 1, st)
          [] n.type = "ast_stmt" /\ n.stype = "ast_decl" ->
                 IF n.name \in st.open[Len(st.open)]
                 THEN [st EXCEPT !.msgs = Append(@, Duplicate(n.name))]
                 ELSE [st EXCEPT !.open[Len(st.open)] = @ \cup {n.name}]
          [] n.type = "ast_stmt" /\ n.stype = "ast_block" ->
                 IF shares THEN WalkAll(n.kids, 1, st)
                 ELSE [open |-> st.open,
                       msgs |-> WalkAll(n.kids, 1,
                                        [st EXCEPT !.open = Append(@, {})]).msgs]
          [] n.type = "ast_stmt" /\ n.stype \in {"ast_asgn", "ast_call", "ast_ret",
                                                 "ast_while", "ast_if"} ->
                 WalkAll(n.kids, 1, st)
          [] OTHER -> st
WalkAll(list, i, st) ==
    IF i > Len(list) THEN st
    ELSE WalkAll(list, i + 1, Walk(list[i], FALSE, st))

\* The errors of a program: a declaration of a name of the innermost open
\* scope, a use of a name of no open scope.
ErrorsOf(n) == Walk(n, FALSE, [open |-> <<>>, msgs |-> <<>>]).msgs

\* During the traversal an error does not clear the flag and does not end
\* the traversal.
StickyStep ==
    at = "visit" =>
        /\ has_error => has_error'
        /\ Len(errors) <= Len(errors')
        /\ pending # <<>> => at' \in {"visit", "undefined"}

SemResult ==
    (at = "done" /\ root.type = "ast_prog") =>
        /\ errors = ErrorsOf(root)
        /\ result = IF ErrorsOf(root) # <<>> THEN 1 ELSE 0
        /\ root = SemErrorsThenMore =>
               errors = <<Undeclared("a"), Duplicate("b"), Undeclared("a")>>

\* C24: check returns 1 exactly when the traversal of the program met a
\* declaration of a name already in the innermost open scope or a read or
\* assignment of a name of no open scope, and 0 otherwise; an error leaves
\* the flag set and the traversal goes on, so later errors are found too.
C24_ErrorIffBadName == []SemResult /\ [][StickyStep]_vars

\* check has returned 1 on a program whose first statement is an error and
\* whose later statements hold two more.
C24_Witness ==
    /\ at = "done"
    /\ root = SemErrorsThenMore
    /\ result = 1
    /\ Len(errors) = 3

\* --------------------------------------------------------------------- C25
ExitsPending == Cardinality({i \in DOMAIN pending : pending[i].t = "exit"})

\* The stack while a program is checked: one scope for each block or
\* function that has not ended, not empty where a name is declared or looked
\* up, empty when check has returned.
ScopesNested ==
    root.type = "ast_prog" =>
        /\ at # "undefined"
        /\ at = "visit" => Len(scopes) = ExitsPending
        /\ (Visiting("stmt") \/ Visiting("expr")) => scopes # <<>>
        /\ (Visiting("stmt") /\ Head(pending).fb) => Len(scopes) = 1
        /\ at = "done" =>
               /\ scopes = <<>>
               /\ root = SemParamRedeclared => errors = <<Duplicate("a")>>
               /\ root = SemNestedThenUsed => errors = <<Undeclared("a")>>
               /\ root = SemShadowed => errors = <<>>

\* What a visit does to the stack while a program is checked.
ScopeStep ==
    (root.type = "ast_prog" /\ at = "visit" /\ pending # <<>>) =>
        LET h == Head(pending)
            block == h.t = "stmt" /\ h.n # NullNode /\ h.n.stype = "ast_block"
        IN  CASE h.t = "exit" -> scopes' = SubSeq(scopes, 1, Len(scopes) - 1)
              [] h.t = "func" -> Len(scopes') = Len(scopes) + 1
              [] block /\ ~h.fb ->
                     /\ scopes' = Append(scopes, {})
                     /\ pending'[Len(h.n.kids) + 1].t = "exit"
              [] block /\ h.fb -> scopes' = scopes
              [] h.t \in {"node", "prog"} -> scopes' = scopes
              [] OTHER ->
                     /\ Len(scopes') = Len(scopes)
                     /\ \A i \in 1..(Len(scopes) - 1) : scopes'[i] = scopes[i]
                     /\ scopes[Len(scopes)] \subseteq scopes'[Len(scopes)]

\* C25: the parameter and the top level of the function body share one
\* scope, every nested block pushes one scope when it is entered and pops
\* it when it ends, the stack is not empty where declare or check_declared
\* is called on a program, names of a nested block are gone after it, and
\* the stack is empty when check returns.
C25_ScopesWellNested == []ScopesNested /\ [][ScopeStep]_vars

\* The declaration in the if branch of SemNestedBlocks is visited: three
\* scopes are open.
C25_Witness ==
    /\ root = SemNestedBlocks
    /\ Visiting("stmt")
    /\ Head(pending).n = Decl("b")
    /\ Len(scopes) = 3

====
